---- MODULE Spec2Model ----
(***************************************************************************)
(* Client-side chat-session reconciliation of the chat frontend:           *)
(* App.jsx (session store, server listing merge, selection, deletion,      *)
(* sign-in / sign-out), ChatWindow.jsx (send turn) and api/chat.js (the    *)
(* HTTP client).  Handlers are modelled per synchronous segment: one       *)
(* action for the code up to the first await, one action per resumption.   *)
(* React state read through a closure is the snapshot stored in the        *)
(* process record; functional setState updates read the current store.     *)
(***************************************************************************)
EXTENDS Integers, Sequences, FiniteSets, TLC

\* ------------------------------------------------------------------ bounds
MaxEvents == 3        \* user operations and auth-provider events (send, select, delete, new chat, sign-in/out)
MaxReloginEvents == 4 \* the same, under ReloginSpec
MaxTurnEvents == 2    \* the same, under FairSpec
MaxLoads == 2         \* invocations of loadServerChatsAndEnsureInitial
MaxPreloaded == 1     \* server sessions that exist before the page is opened

\* --------------------------------------------------------- JS value model
Null == "null"
Undefined == "undefined"

\* An object is a function from field names to values; an absent field is
\* JS undefined.  Spread {...a, ...b} is Merge(a, b).
EmptyObj == [k \in {} |-> Null]
Merge(a, b) == [k \in (DOMAIN a) \cup (DOMAIN b) |-> IF k \in DOMAIN b THEN b[k] ELSE a[k]]
Without(a, K) == [k \in (DOMAIN a) \ K |-> a[k]]
Has(o, f) == f \in DOMAIN o
\* truthiness of a boolean-valued field (absent = undefined = falsy)
Flag(o, f) == Has(o, f) /\ o[f] = TRUE
\* value of an id-valued field, Undefined when absent
IdField(o, f) == IF Has(o, f) THEN o[f] ELSE Undefined
Falsy(v) == v \in {Null, Undefined, ""}
HasServerId(c) == ~Falsy(IdField(c, "server_id"))

Contains(s, sub) == \E i \in 1..(Len(s) - Len(sub) + 1) : SubSeq(s, i, i + Len(sub) - 1) = sub

\* ------------------------------------------------------------- constants
TitleSlice == 30
FirstMessageSlice == 60
InitialTitle == "Chat s assistentom"
NewChatTitle == "Novyj chat"
DefaultTitles == {NewChatTitle, "", InitialTitle}
ErrorText == "Izvinite, proizoshla oshibka pri otpravke soobshhenija. Poprobujte eshhe raz."
DeletedMarker == "Chat was deleted during processing"

Hello == "Hello"
LongText == "This question is deliberately longer than sixty characters in total."
Texts == {Hello, LongText}
ServerText == "server answer"

\* ----------------------------------------------------------- id sources
\* generateUUID: a fresh value on every call
LocalId(n) == "L" \o ToString(n)
MsgUuid(n) == "u" \o ToString(n)
\* ids assigned by the backend
ServerChatId(n) == "S" \o ToString(n)
ServerMsgId(n) == "m" \o ToString(n)
PreviewId(sid) == sid \o "-preview"

\* ------------------------------------------------------ the session store
\* `chats` is a JS object with string keys: an ordered list of key/value
\* pairs (insertion order, which Object.keys / Object.values expose).
StoreKeys(st) == [i \in 1..Len(st) |-> st[i].k]
KeySet(st) == {st[i].k : i \in 1..Len(st)}
InStore(st, key) == key \in KeySet(st)
Lookup(st, key) == (CHOOSE i \in 1..Len(st) : st[i].k = key)
Get(st, key) == st[Lookup(st, key)].v
\* prev[chatId] spread into an object literal: {} when the key is absent
GetOrEmpty(st, key) == IF InStore(st, key) THEN Get(st, key) ELSE EmptyObj
\* { ...prev, [key]: val }
Put(st, key, val) ==
  IF InStore(st, key)
  THEN [i \in 1..Len(st) |-> IF st[i].k = key THEN [k |-> key, v |-> val] ELSE st[i]]
  ELSE Append(st, [k |-> key, v |-> val])
\* delete copy[key]
Remove(st, key) == SelectSeq(st, LAMBDA e : e.k # key)

Messages(c) == IF Has(c, "messages") THEN c.messages ELSE <<>>
NoMessages(c) == Len(Messages(c)) = 0

\* ------------------------------------------------------- pure store code
\* a title that is the whole first message
DeriveTitleUncut(content) == content

\* the title updateChatMessages cuts from the first user message
DeriveTitle(content) ==
  SubSeq(content, 1, IF Len(content) < TitleSlice THEN Len(content) ELSE TitleSlice)
    \o (IF Len(content) > TitleSlice THEN "..." ELSE "")

\* an update that derives the title whatever the stored server id is
updateChatMessagesRetitling(st, chatId, messages, metadata) ==
  LET existing == GetOrEmpty(st, chatId)
      base == Merge(Merge(existing, metadata), [messages |-> messages])
      entry == IF Len(messages) > 0 /\ messages[1].role = "user"
               THEN Merge(base, [title |-> DeriveTitle(messages[1].content)])
               ELSE base
  IN Put(st, chatId, entry)

\* updateChatMessages: the functional update applied to the current store
updateChatMessages(st, chatId, messages, metadata) ==
  LET existing == GetOrEmpty(st, chatId)
      isTransient == ~HasServerId(existing)
      base == Merge(Merge(existing, metadata), [messages |-> messages])
      entry == IF isTransient /\ Len(messages) > 0 /\ messages[1].role = "user"
               THEN Merge(base, [title |-> DeriveTitle(messages[1].content)])
               ELSE IF Has(existing, "title")
                    THEN Merge(base, [title |-> existing.title])
                    ELSE Without(base, {"title"})
  IN Put(st, chatId, entry)

\* a transient chat object that is already marked persisted
TransientChatPersisted(id, title) ==
  [id |-> id, server_id |-> Null, title |-> title, messages |-> <<>>, persisted |-> TRUE]

\* the object built by createInitialChat / createNewChat
TransientChat(id, title) ==
  [id |-> id, server_id |-> Null, title |-> title, messages |-> <<>>, persisted |-> FALSE]

\* cleanupEmptyLocalChats, with the activeChat its closure holds
cleanupEmptyLocalChats(st, active) ==
  SelectSeq(st, LAMBDA e : ~(~Flag(e.v, "persisted") /\ NoMessages(e.v) /\ e.k # active))

\* one element of the listing answered by GET /chats, built by the backend
\* from a stored session
ListingItem(s) ==
  Merge([id |-> s.id, title |-> s.title],
        IF Len(s.msgs) = 0 THEN EmptyObj
        ELSE [first_message |-> s.msgs[1].content,
              last_message |-> s.msgs[Len(s.msgs)].content,
              last_message_role |-> s.msgs[Len(s.msgs)].role])
\* ordered by recency: newest first
Listing(server) == [i \in 1..Len(server) |-> ListingItem(server[Len(server) + 1 - i])]

Ellipsize(text, n) == IF Len(text) > n THEN SubSeq(text, 1, n) \o "..." ELSE text

\* a listing entry that forgets the server id
MappedChatNoServerId(c) ==
  [id |-> c.id, server_id |-> Null, title |-> NewChatTitle,
   messages |-> IF Has(c, "last_message")
                THEN <<[id |-> PreviewId(c.id), role |-> "assistant", content |-> c.last_message]>>
                ELSE <<>>,
   preview |-> Has(c, "last_message"), persisted |-> TRUE]

\* the store entry built from one listing element
MappedChat(c) ==
  LET hasLast == Has(c, "last_message") /\ ~Falsy(c.last_message)
      previewRole == IF Has(c, "last_message_role") /\ ~Falsy(c.last_message_role)
                     THEN c.last_message_role
                     ELSE IF hasLast THEN "assistant" ELSE Null
      hasFirst == Has(c, "first_message") /\ ~Falsy(c.first_message)
      useServerTitle == Has(c, "title") /\ ~Falsy(c.title) /\ c.title \notin DefaultTitles
  IN [id |-> c.id,
      server_id |-> c.id,
      title |-> IF useServerTitle THEN c.title
                ELSE IF hasFirst THEN Ellipsize(c.first_message, FirstMessageSlice)
                ELSE NewChatTitle,
      messages |-> IF hasLast
                   THEN <<[id |-> PreviewId(c.id), role |-> previewRole, content |-> c.last_message]>>
                   ELSE <<>>,
      preview |-> hasLast,
      persisted |-> TRUE]

\* mapped = {}; for (const c of serverChats) mapped[c.id] = {...}
RECURSIVE MapServerChats(_)
MapServerChats(list) ==
  IF Len(list) = 0 THEN <<>>
  ELSE Put(MapServerChats(SubSeq(list, 1, Len(list) - 1)),
           list[Len(list)].id, MappedChat(list[Len(list)]))

\* setChats(prev => { copy = {...prev}; for k in mapped: copy[k] = mapped[k] })
RECURSIVE MergeMapped(_, _)
MergeMapped(st, mapped) ==
  IF Len(mapped) = 0 THEN st
  ELSE Put(MergeMapped(st, SubSeq(mapped, 1, Len(mapped) - 1)),
           mapped[Len(mapped)].k, mapped[Len(mapped)].v)

\* a merge that replaces the store by the listing
MergedStoreReplacing(st, list) == MapServerChats(list)

\* the store after the listing has been mapped and merged into it
MergedStore(st, list) == MergeMapped(st, MapServerChats(list))

\* a refresh that drops the listing it fetched
ReplaceWithMappedIgnored(st, mapped) == st

\* the delete-failure refresh: setChats(mapped)
ReplaceWithMapped(st, mapped) == mapped

\* transformMessages: the fields it copies; the confirmation fields of the
\* backend record are not among them
transformMessages(msgs) ==
  [i \in 1..Len(msgs) |-> [id |-> msgs[i].id, role |-> msgs[i].role, content |-> msgs[i].content]]

\* the auto-select effect (deps [chats, activeChat, user]), run to quiescence
AutoSelect(st, active, usr) ==
  IF Falsy(active) /\ Len(st) > 0 /\ usr
  THEN LET avail == SelectSeq(st, LAMBDA e : Flag(e.v, "persisted") \/ ~NoMessages(e.v))
       IN IF Len(avail) > 0 THEN IdField(avail[1].v, "id") ELSE st[1].k
  ELSE active

\* ------------------------------------------------------------------ state
VARIABLES
  authSession,      \* auth provider: a session (bearer credential) exists
  srv,              \* backend: the user's sessions, in creation order
  ctr,              \* sources of fresh ids (client uuids, backend ids)
  user,             \* App state `user` is set
  authLoaded,       \* App state authLoaded
  loadingChats,     \* App state loadingChats
  chats,            \* App state chats (the session store)
  activeChat,       \* App state activeChat
  initialLoadDone,  \* initialLoadDoneRef.current
  loads,            \* running loadServerChatsAndEnsureInitial invocations
  turns,            \* running handleSendMessage invocations
  isLoading,        \* ChatWindow state isLoading
  selects,          \* running handleSelectChat invocations
  loadMsg,          \* the loadMessages fetch of the current activeChat effect
  deletes,          \* running handleDeleteChat invocations
  confirms,         \* running handleConfirmPlan invocations
  logouts,          \* running handleLogout invocations (awaiting signOut)
  nEvents,          \* user operations and auth events so far
  quiet,            \* no user operation and no sign-out has happened yet
  nLoads,           \* load invocations so far
  nInitial,         \* initial chats created since the one-shot flag was last cleared
  last              \* the last step: the API client calls it issued and what it was

vars == <<authSession, srv, ctr, user, authLoaded, loadingChats, chats, activeChat,
          initialLoadDone, loads, turns, isLoading, selects, loadMsg, deletes,
          confirms, logouts, nEvents, quiet, nLoads, nInitial, last>>

\* an API client call, with the store entry it was issued for (if any) and
\* whether that entry had no server id when the call was issued
Call(op, target, entry, transient) ==
  [op |-> op, target |-> target, entry |-> entry, transient |-> transient]

Idle == [pc |-> "idle"]
NoEv == [kind |-> "none"]

\* the backend sessions present before the page is opened
PreloadedSession(n, kind) ==
  IF kind = "full"
  THEN [id |-> ServerChatId(n), title |-> NewChatTitle,
        msgs |-> <<[id |-> ServerMsgId(2 * n - 1), role |-> "user", content |-> LongText],
                   [id |-> ServerMsgId(2 * n), role |-> "assistant", content |-> ServerText]>>]
  ELSE [id |-> ServerChatId(n), title |-> "Budget", msgs |-> <<>>]
PreloadKinds == {"full", "empty"}

\* values the mount-time closure of loadServerChatsAndEnsureInitial holds
MountChats == <<>>
MountActiveChat == Null

Init ==
  /\ authSession \in BOOLEAN
  /\ \E n \in 0..MaxPreloaded : \E kinds \in [1..n -> PreloadKinds] :
       /\ srv = [i \in 1..n |-> PreloadedSession(i, kinds[i])]
       /\ ctr = [chat |-> 1, msg |-> 1, sid |-> n + 1, mid |-> 2 * n + 1, proc |-> 2]
  /\ user = FALSE
  /\ authLoaded = FALSE
  /\ loadingChats = TRUE
  /\ chats = <<>>
  /\ activeChat = Null
  /\ initialLoadDone = FALSE
  /\ loads = {[n |-> 1, pc |-> "restore", auth |-> FALSE]}
  /\ turns = {}
  /\ isLoading = FALSE
  /\ selects = {}
  /\ loadMsg = Idle
  /\ deletes = {}
  /\ confirms = {}
  /\ logouts = 0
  /\ nEvents = 0
  /\ quiet = TRUE
  /\ nLoads = 1
  /\ nInitial = 0
  /\ last = [calls |-> <<>>, ev |-> NoEv]

\* ------------------------------------------------------ render + effects
\* an activeChat effect that refetches a session that already has messages
LoadMessagesForAlways(st, key, auth) ==
  IF Falsy(key) \/ ~InStore(st, key) THEN Idle
  ELSE LET chatObj == Get(st, key)
       IN IF ~Flag(chatObj, "preview") /\ ~HasServerId(chatObj) THEN Idle
          ELSE IF Flag(chatObj, "preview")
               THEN [pc |-> "fetch", chatId |-> key, target |-> key, branch |-> "preview", auth |-> auth]
               ELSE [pc |-> "fetch", chatId |-> key, target |-> chatObj.server_id,
                     branch |-> "plain", auth |-> auth]

\* the activeChat effect: which fetch loadMessages(activeChat) starts
LoadMessagesFor(st, key, auth) ==
  IF Falsy(key) \/ ~InStore(st, key) THEN Idle
  ELSE LET chatObj == Get(st, key)
       IN IF ~(Flag(chatObj, "preview") \/ NoMessages(chatObj)) THEN Idle
          ELSE IF ~Flag(chatObj, "preview") /\ ~HasServerId(chatObj) THEN Idle
          ELSE IF Flag(chatObj, "preview")
               THEN [pc |-> "fetch", chatId |-> key, target |-> key, branch |-> "preview", auth |-> auth]
               ELSE [pc |-> "fetch", chatId |-> key, target |-> chatObj.server_id,
                     branch |-> "plain", auth |-> auth]

\* Commit the React state written by a handler segment, then run the
\* effects: auto-select, the activeChat effect (cleanup of the previous
\* fetch, start of the next), and the unmount of ChatWindow when the main
\* interface is not rendered.
Settle(st, act, usr, al, lm, il, tr, calls, ev, au) ==
  LET act2 == AutoSelect(st, act, usr)
      changed == act2 # activeChat
      startLM == LoadMessagesFor(st, act2, au)
      windowUp == usr /\ al
  IN /\ chats' = st
     /\ activeChat' = act2
     /\ user' = usr
     /\ authLoaded' = al
     /\ loadMsg' = IF changed THEN startLM ELSE lm
     /\ last' = [calls |-> calls \o
                      (IF changed /\ startLM.pc = "fetch"
                       THEN <<Call("listMessages", startLM.target, act2, ~HasServerId(Get(st, act2)))>>
                       ELSE <<>>),
                  ev |-> ev]
     /\ isLoading' = IF windowUp THEN il ELSE FALSE
     /\ turns' = IF windowUp THEN tr ELSE {[t EXCEPT !.live = FALSE] : t \in tr}

\* createInitialChat: returns the store after setChats and the new id
InitialChatId == LocalId(ctr.chat)
\* an ensure-initial step that adds nothing
WithInitialChatNone(st) == st

\* createInitialChat: the store after its setChats
WithInitialChat(st) == Put(st, InitialChatId, TransientChat(InitialChatId, InitialTitle))

\* ---------------------------------------- loadServerChatsAndEnsureInitial
\* resumption after `await restoreSession()`
LoadRestore(l) ==
  /\ l \in loads /\ l.pc = "restore"
  /\ loads' = (loads \ {l}) \cup {[l EXCEPT !.pc = "check"]}
  /\ Settle(chats, activeChat, user \/ authSession, TRUE, loadMsg, isLoading, turns, <<>>, NoEv, authSession)
  /\ UNCHANGED <<authSession, srv, ctr, loadingChats, initialLoadDone, selects, deletes, confirms,
                 logouts, nEvents, quiet, nLoads, nInitial>>

\* `if (!initialLoadDoneRef.current)`
FirstLoad == ~initialLoadDone

\* a load that has passed the one-shot test and is suspended at
\* `await createInitialChat()`; `from` is the branch it is in
Ensuring(l, from, list) ==
  [n |-> l.n, pc |-> "ensure", auth |-> l.auth, from |-> from, list |-> list]

\* resumption after the second `await getCurrentSession()`
LoadCheck(l) ==
  /\ l \in loads /\ l.pc = "check"
  /\ IF ~authSession
     THEN /\ loads' = IF FirstLoad THEN (loads \ {l}) \cup {Ensuring(l, "nosession", <<>>)}
                      ELSE loads \ {l}
          /\ loadingChats' = IF FirstLoad THEN loadingChats ELSE FALSE
          /\ Settle(chats, activeChat, user, authLoaded, loadMsg, isLoading, turns, <<>>, NoEv,
                    authSession)
     ELSE /\ loads' = (loads \ {l}) \cup {[l EXCEPT !.pc = "fetch", !.auth = TRUE]}
          /\ Settle(chats, activeChat, user, authLoaded, loadMsg, isLoading, turns,
                    <<Call("listSessions", Null, Null, FALSE)>>, NoEv, authSession)
          /\ UNCHANGED loadingChats
  /\ UNCHANGED <<authSession, srv, ctr, initialLoadDone, selects, deletes, confirms, logouts,
                 nEvents, quiet, nLoads, nInitial>>

\* api/chat.js getChats after `await fetch(...)`: the parsed body on 2xx, []
\* on 401/403, a throw (ok = FALSE) on any other status
getChats(status, list) ==
  IF status \in 200..299 THEN [ok |-> TRUE, list |-> list, status |-> status]
  ELSE IF status = 401 \/ status = 403 THEN [ok |-> TRUE, list |-> <<>>, status |-> status]
  ELSE [ok |-> FALSE, list |-> <<>>, status |-> status]

\* the statuses GET /chats answers with: 401 or 403 without a bearer token,
\* else the listing or a server error
GetChatsStatuses(auth) == IF auth THEN {200, 500} ELSE {401, 403}

\* what getChats resolves to: the listing, [] on 401/403, or a throw
GetChatsOutcomes(auth) == {getChats(status, Listing(srv)) : status \in GetChatsStatuses(auth)}

\* resumption after `await getChats()`: a later load merges the listing (or
\* ignores the failure), the first one goes on to createInitialChat
LoadFetchResp(l) ==
  /\ l \in loads /\ l.pc = "fetch"
  /\ \E r \in GetChatsOutcomes(l.auth) :
       IF FirstLoad
       THEN /\ loads' = (loads \ {l}) \cup
                           {Ensuring(l, IF r.ok THEN "listing" ELSE "failed", r.list)}
            /\ Settle(chats, activeChat, user, authLoaded, loadMsg, isLoading, turns, <<>>,
                      NoEv, authSession)
            /\ UNCHANGED loadingChats
       ELSE /\ loads' = loads \ {l}
            /\ loadingChats' = FALSE
            /\ IF r.ok
               THEN Settle(MergedStore(chats, r.list), activeChat, user,
                           authLoaded, loadMsg, isLoading, turns, <<>>,
                           [kind |-> "listingMerged"], authSession)
               ELSE Settle(chats, activeChat, user, authLoaded, loadMsg, isLoading, turns,
                           <<>>, NoEv, authSession)
  /\ UNCHANGED <<authSession, srv, ctr, initialLoadDone, selects, deletes, confirms, logouts,
                 nEvents, quiet, nLoads, nInitial>>

\* resumption after `await createInitialChat()`. The state updates the load
\* queued since its previous await are applied here, in the order they were
\* queued: React renders after the microtasks that separate the one-shot
\* test from `initialLoadDoneRef.current = true`.
LoadEnsured(l) ==
  /\ l \in loads /\ l.pc = "ensure"
  /\ loads' = loads \ {l}
  /\ loadingChats' = FALSE
  /\ initialLoadDone' = TRUE
  /\ LET mapped == MapServerChats(l.list)
         merged == MergedStore(chats, l.list)
         hasAny == Len(mapped) > 0
         firstChatId == mapped[1].k
         hasLocal == \E i \in 1..Len(MountChats) : ~HasServerId(MountChats[i].v)
     IN IF l.from = "listing" /\ hasAny
        THEN /\ Settle(IF hasLocal THEN merged ELSE WithInitialChat(merged),
                       IF Falsy(MountActiveChat) THEN firstChatId ELSE activeChat,
                       user, authLoaded, loadMsg, isLoading, turns, <<>>,
                       [kind |-> "listingMerged"], authSession)
             /\ ctr' = IF hasLocal THEN ctr ELSE [ctr EXCEPT !.chat = @ + 1]
             /\ nInitial' = IF hasLocal THEN nInitial ELSE nInitial + 1
        ELSE /\ Settle(WithInitialChat(IF l.from = "listing" THEN merged ELSE chats),
                       InitialChatId, user, authLoaded, loadMsg, isLoading, turns, <<>>,
                       IF l.from = "listing" THEN [kind |-> "listingMerged"] ELSE NoEv,
                       authSession)
             /\ ctr' = [ctr EXCEPT !.chat = @ + 1]
             /\ nInitial' = nInitial + 1
  /\ UNCHANGED <<authSession, srv, selects, deletes, confirms, logouts, nEvents, quiet, nLoads>>

\* a load is between its one-shot test and the assignment of the flag: only
\* continuations of promises that are already resolved run before it goes on
InGap == \E l \in loads : l.pc = "ensure"

\* ------------------------------------------------------- auth and new chat
\* the main interface (Sidebar + ChatWindow) is what App renders
MainShown == authLoaded /\ user
LoginShown == authLoaded /\ ~user

\* onAuthStateChange callback, event SIGNED_IN with a session user
OnSignedIn ==
  /\ (~initialLoadDone) => nLoads < MaxLoads
  /\ IF ~initialLoadDone
     THEN /\ loads' = loads \cup {[n |-> ctr.proc, pc |-> "restore", auth |-> FALSE]}
          /\ ctr' = [ctr EXCEPT !.proc = @ + 1]
          /\ nLoads' = nLoads + 1
          /\ loadingChats' = TRUE
     ELSE UNCHANGED <<loads, ctr, nLoads, loadingChats>>
  /\ Settle(chats, activeChat, TRUE, TRUE, loadMsg, isLoading, turns, <<>>,
            [kind |-> "signedIn", loading |-> ~initialLoadDone], TRUE)
  /\ UNCHANGED <<srv, initialLoadDone, selects, deletes, confirms, nInitial>>

\* a SIGNED_OUT callback that clears the flag and the user only
OnSignedOutKeepsStore ==
  /\ initialLoadDone' = FALSE
  /\ nInitial' = 0
  /\ Settle(chats, activeChat, FALSE, TRUE, loadMsg, isLoading, turns, <<>>, NoEv, FALSE)
  /\ UNCHANGED <<srv, ctr, loadingChats, loads, selects, deletes, confirms, nLoads>>

\* onAuthStateChange callback, event SIGNED_OUT
OnSignedOut ==
  /\ initialLoadDone' = FALSE
  /\ nInitial' = 0
  /\ Settle(<<>>, Null, FALSE, TRUE, loadMsg, isLoading, turns, <<>>, NoEv, FALSE)
  /\ UNCHANGED <<srv, ctr, loadingChats, loads, selects, deletes, confirms, nLoads>>

\* LoginPage.handleSubmit: signInWithPassword succeeds (the provider emits
\* SIGNED_IN), then onLogin = handleLogin sets the user
SignIn ==
  /\ LoginShown
  /\ authSession' = TRUE
  /\ nEvents' = nEvents + 1
  /\ quiet' = FALSE
  /\ OnSignedIn
  /\ UNCHANGED logouts

\* RegisterPage.handleSubmit: signUp without a session (e-mail confirmation
\* pending), then onRegister = handleRegister sets the user
Register ==
  /\ LoginShown /\ ~authSession
  /\ nEvents' = nEvents + 1
  /\ quiet' = FALSE
  /\ Settle(chats, activeChat, TRUE, authLoaded, loadMsg, isLoading, turns, <<>>, NoEv, authSession)
  /\ UNCHANGED <<authSession, srv, ctr, loadingChats, initialLoadDone, loads, selects,
                 deletes, confirms, logouts, nLoads, nInitial>>

\* the provider re-emits SIGNED_IN for an existing session (a delivery that
\* finds user, authLoaded and the one-shot flag already set changes nothing)
SignedInEvent ==
  /\ authSession
  /\ ~user \/ ~authLoaded \/ ~initialLoadDone
  /\ nEvents' = nEvents + 1
  /\ quiet' = quiet
  /\ OnSignedIn
  /\ UNCHANGED <<authSession, logouts>>

\* the provider ends the session by itself (expiry, another tab)
SignedOutEvent ==
  /\ authSession
  /\ authSession' = FALSE
  /\ nEvents' = nEvents + 1
  /\ quiet' = FALSE
  /\ OnSignedOut
  /\ UNCHANGED logouts

\* handleLogout up to `await supabase.auth.signOut()`; the provider emits
\* SIGNED_OUT when a session existed
LogoutStart ==
  /\ MainShown
  /\ nEvents' = nEvents + 1
  /\ quiet' = FALSE
  /\ authSession' = FALSE
  /\ logouts' = logouts + 1
  /\ IF authSession
     THEN OnSignedOut
     ELSE /\ Settle(chats, activeChat, user, authLoaded, loadMsg, isLoading, turns, <<>>, NoEv, FALSE)
          /\ UNCHANGED <<srv, ctr, loadingChats, initialLoadDone, loads, selects, deletes, confirms, nLoads, nInitial>>

\* handleLogout after the await
LogoutFinish ==
  /\ logouts > 0
  /\ logouts' = logouts - 1
  /\ initialLoadDone' = FALSE
  /\ nInitial' = 0
  /\ Settle(<<>>, Null, FALSE, authLoaded, loadMsg, isLoading, turns, <<>>, NoEv, authSession)
  /\ UNCHANGED <<authSession, srv, ctr, loadingChats, loads, selects, deletes, confirms, nEvents, quiet, nLoads>>

\* createNewChat
NewChat ==
  /\ MainShown
  /\ nEvents' = nEvents + 1
  /\ quiet' = FALSE
  /\ LET newChatId == LocalId(ctr.chat)
     IN Settle(Put(chats, newChatId, TransientChat(newChatId, NewChatTitle)), newChatId,
               user, authLoaded, loadMsg, isLoading, turns, <<>>, NoEv, authSession)
  /\ ctr' = [ctr EXCEPT !.chat = @ + 1]
  /\ UNCHANGED <<authSession, srv, loadingChats, initialLoadDone, loads, selects, deletes, confirms,
                 logouts, nLoads, nInitial>>

\* ------------------------------------------------ selection and history
\* the history the backend stores for a session
HistoryOf(target) ==
  IF \E i \in 1..Len(srv) : srv[i].id = target
  THEN srv[CHOOSE i \in 1..Len(srv) : srv[i].id = target].msgs
  ELSE <<>>
OnServer(target) == \E i \in 1..Len(srv) : srv[i].id = target

\* a getChatMessages that answers [] on every non-2xx status
getChatMessagesLenient(status, msgs) ==
  IF status \in 200..299 THEN [ok |-> TRUE, msgs |-> msgs, status |-> status]
  ELSE [ok |-> TRUE, msgs |-> <<>>, status |-> status]

\* api/chat.js getChatMessages after `await fetch(...)`: the parsed body on
\* 2xx, [] on 401/403, a throw (ok = FALSE) on any other status
getChatMessages(status, msgs) ==
  IF status \in 200..299 THEN [ok |-> TRUE, msgs |-> msgs, status |-> status]
  ELSE IF status = 401 \/ status = 403 THEN [ok |-> TRUE, msgs |-> <<>>, status |-> status]
  ELSE [ok |-> FALSE, msgs |-> <<>>, status |-> status]

\* the statuses GET /chats/{id}/messages answers with
GetChatMessagesStatuses(target, auth) ==
  IF ~auth THEN {401, 403}
  ELSE IF OnServer(target) THEN {200, 500} ELSE {404}

\* what getChatMessages(target) resolves to: the stored history, [] on
\* 401/403, or a throw (404 for an id the backend does not know, 5xx)
GetChatMessagesOutcomes(target, auth) ==
  {getChatMessages(status, HistoryOf(target)) : status \in GetChatMessagesStatuses(target, auth)}

\* handleSelectChat up to the first await; i is the Sidebar row clicked
SelectChat(i) ==
  /\ MainShown /\ ~loadingChats
  /\ i \in 1..Len(chats)
  /\ nEvents' = nEvents + 1
  /\ quiet' = FALSE
  /\ LET chatId == IdField(chats[i].v, "id")
         cleaned == cleanupEmptyLocalChats(chats, activeChat)
         found == InStore(chats, chatId)
         chatObj == GetOrEmpty(chats, chatId)
         targetId == IF found /\ HasServerId(chatObj) THEN chatObj.server_id ELSE chatId
     IN IF found /\ ~HasServerId(chatObj) /\ ~Flag(chatObj, "preview")
        THEN /\ Settle(cleaned, chatId, user, authLoaded, loadMsg, isLoading, turns, <<>>,
                       [kind |-> "selected", chatId |-> chatId, wasActive |-> activeChat],
                       authSession)
             /\ UNCHANGED <<selects, ctr>>
        ELSE LET s == [n |-> ctr.proc, chatId |-> chatId, target |-> targetId,
                       auth |-> authSession, entry |-> chats[i].k,
                       serverId |-> IdField(chats[i].v, "server_id"),
                       wasPreview |-> Flag(chats[i].v, "preview")]
             IN /\ selects' = selects \cup {s}
                /\ ctr' = [ctr EXCEPT !.proc = @ + 1]
                /\ Settle(cleaned, activeChat, user, authLoaded, loadMsg, isLoading, turns,
                          <<Call("listMessages", targetId, chats[i].k, ~HasServerId(chats[i].v))>>,
                          [kind |-> "selectStart", sel |-> s], authSession)
  /\ UNCHANGED <<authSession, srv, loadingChats, initialLoadDone, loads, deletes, confirms, logouts, nLoads, nInitial>>

\* a catch block that leaves the active session as it is
SelectFallbackNone(s) == activeChat

\* the catch block of handleSelectChat: `setActiveChat(chatId)`, nothing else
SelectFallback(s) == s.chatId

\* handleSelectChat after `await getChatMessages(targetId)`
SelectResp(s) ==
  /\ s \in selects
  /\ selects' = selects \ {s}
  /\ \E r \in GetChatMessagesOutcomes(s.target, s.auth) :
       IF r.ok
       THEN Settle(updateChatMessages(chats, s.chatId, transformMessages(r.msgs), [preview |-> FALSE]),
                   s.chatId, user, authLoaded, loadMsg, isLoading, turns, <<>>,
                   [kind |-> "selectEnd", sel |-> s, ok |-> TRUE, history |-> r.msgs,
                    status |-> r.status], authSession)
       ELSE Settle(chats, SelectFallback(s), user, authLoaded, loadMsg, isLoading, turns, <<>>,
                   [kind |-> "selectEnd", sel |-> s, ok |-> FALSE, history |-> <<>>,
                    status |-> r.status], authSession)
  /\ UNCHANGED <<authSession, srv, ctr, loadingChats, initialLoadDone, loads, deletes, confirms, logouts,
                 nEvents, quiet, nLoads, nInitial>>

\* loadMessages (activeChat effect) after its await; a fetch whose effect
\* was cleaned up is dropped by `if (!mounted) return`
LoadMessagesResp ==
  /\ loadMsg.pc = "fetch"
  /\ \E r \in GetChatMessagesOutcomes(loadMsg.target, loadMsg.auth) :
       LET transformed == transformMessages(r.msgs)
       IN IF r.ok /\ loadMsg.branch = "preview"
          THEN Settle(updateChatMessages(chats, loadMsg.chatId, transformed, [preview |-> FALSE]),
                      activeChat, user, authLoaded, Idle, isLoading, turns, <<>>, NoEv, authSession)
          ELSE IF r.ok /\ Len(r.msgs) > 0
          THEN Settle(updateChatMessages(chats, loadMsg.chatId, transformed, EmptyObj),
                      activeChat, user, authLoaded, Idle, isLoading, turns, <<>>, NoEv, authSession)
          ELSE Settle(chats, activeChat, user, authLoaded, Idle, isLoading, turns, <<>>, NoEv, authSession)
  /\ UNCHANGED <<authSession, srv, ctr, loadingChats, initialLoadDone, loads, selects, deletes, confirms,
                 logouts, nEvents, quiet, nLoads, nInitial>>

\* --------------------------------------------------------------- deletion
\* handleDeleteChat up to `await deleteChat(...)`; i is the Sidebar row
\* whose delete button is clicked (shown unless transient and empty)
DeleteChat(i) ==
  /\ MainShown /\ ~loadingChats
  /\ i \in 1..Len(chats)
  /\ ~(~HasServerId(chats[i].v) /\ NoMessages(chats[i].v))
  /\ nEvents' = nEvents + 1
  /\ quiet' = FALSE
  /\ LET chatId == IdField(chats[i].v, "id")
         found == InStore(chats, chatId)
         chatObj == GetOrEmpty(chats, chatId)
         remote == found /\ HasServerId(chatObj) /\ Flag(chatObj, "persisted")
     IN /\ Settle(Remove(chats, chatId), IF activeChat = chatId THEN Null ELSE activeChat,
                  user, authLoaded, loadMsg, isLoading, turns,
                  IF remote THEN <<Call("deleteSession", chatObj.server_id, chats[i].k, FALSE)>>
                  ELSE <<>>,
                  [kind |-> "deleteStart", chatId |-> chatId, entry |-> chats[i].k,
                   remote |-> remote, hadServerId |-> HasServerId(chats[i].v),
                   wasPersisted |-> Flag(chats[i].v, "persisted")], authSession)
        /\ IF remote
           THEN /\ deletes' = deletes \cup
                     {[n |-> ctr.proc, pc |-> "delete", target |-> chatObj.server_id,
                       chatId |-> chatId, auth |-> authSession]}
                /\ ctr' = [ctr EXCEPT !.proc = @ + 1]
           ELSE UNCHANGED <<deletes, ctr>>
  /\ UNCHANGED <<authSession, srv, loadingChats, initialLoadDone, loads, selects, confirms, logouts, nLoads, nInitial>>

\* deleteChat resolves (2xx) or throws; a throw starts the list refresh
DeleteResp(d) ==
  /\ d \in deletes /\ d.pc = "delete"
  /\ \/ /\ d.auth /\ OnServer(d.target)
        /\ srv' = SelectSeq(srv, LAMBDA x : x.id # d.target)
        /\ deletes' = deletes \ {d}
        /\ Settle(chats, activeChat, user, authLoaded, loadMsg, isLoading, turns, <<>>, NoEv, authSession)
     \/ /\ deletes' = (deletes \ {d}) \cup {[d EXCEPT !.pc = "refresh", !.auth = authSession]}
        /\ Settle(chats, activeChat, user, authLoaded, loadMsg, isLoading, turns,
                  <<Call("listSessions", Null, Null, FALSE)>>, [kind |-> "deleteFailed", del |-> d],
                  authSession)
        /\ UNCHANGED srv
  /\ UNCHANGED <<authSession, ctr, loadingChats, initialLoadDone, loads, selects, confirms, logouts,
                 nEvents, quiet, nLoads, nInitial>>

\* the refresh after a failed delete: setChats(mapped), or a logged failure
DeleteRefreshResp(d) ==
  /\ d \in deletes /\ d.pc = "refresh"
  /\ deletes' = deletes \ {d}
  /\ \E r \in GetChatsOutcomes(d.auth) :
       IF r.ok
       THEN Settle(ReplaceWithMapped(chats, MapServerChats(r.list)), activeChat, user, authLoaded,
                   loadMsg, isLoading, turns, <<>>,
                   [kind |-> "listingRefreshed", del |-> d, list |-> r.list, status |-> r.status],
                   authSession)
       ELSE Settle(chats, activeChat, user, authLoaded, loadMsg, isLoading, turns, <<>>, NoEv, authSession)
  /\ UNCHANGED <<authSession, srv, ctr, loadingChats, initialLoadDone, loads, selects, confirms, logouts,
                 nEvents, quiet, nLoads, nInitial>>

\* ------------------------------------------------------------ send turn
\* api/chat.js sendMessage, non-2xx branch: the Error message thrown for a
\* response with the given status and body text (json: the body parses as
\* JSON with the given detail)
SendErrorMessage(resp) ==
  LET isChatDeletedError == resp.status = 404 /\ Contains(resp.text, DeletedMarker)
  IN IF resp.json
     THEN IF isChatDeletedError THEN "ChatDeletedError: " \o resp.detail ELSE resp.text
     ELSE "HTTP error! status: " \o ToString(resp.status) \o " body: " \o resp.text
\* api/chat.js createChat, non-2xx branch
CreateErrorMessage(status) == "HTTP error! status: " \o ToString(status)

\* a catch block that swallows nothing
SwallowedErrorNever(message) == FALSE

\* ChatWindow catch block: the errors it swallows without an error message
SwallowedError(message) ==
  \/ Contains(message, "ChatDeletedError")
  \/ Contains(message, "Chat was deleted")
  \/ Contains(message, "404")

\* non-2xx answers of POST /chats/{id}/messages
GoneResp == [status |-> 404, json |-> TRUE, detail |-> DeletedMarker,
             text |-> "{\"detail\":\"Chat was deleted during processing\"}"]
NotFoundResp == [status |-> 404, json |-> TRUE, detail |-> "Chat not found",
                 text |-> "{\"detail\":\"Chat not found\"}"]
\* a 404 whose body is not JSON (answered in front of the backend)
PlainNotFoundResp == [status |-> 404, json |-> FALSE, detail |-> "", text |-> "Not Found"]
ServerErrorResp == [status |-> 500, json |-> FALSE, detail |-> "", text |-> "Internal Server Error"]
UnauthorizedResp == [status |-> 401, json |-> TRUE, detail |-> "Not authenticated",
                     text |-> "{\"detail\":\"Not authenticated\"}"]
SendFailures(target, auth) ==
  IF ~auth THEN {UnauthorizedResp}
  ELSE IF OnServer(target) THEN {ServerErrorResp}
  ELSE {GoneResp, NotFoundResp, PlainNotFoundResp}

\* the assistant message ChatWindow builds from response.assistantMessage
AssistantMessage(am) ==
  [id |-> am.id, role |-> am.role, content |-> am.content,
   awaiting_confirmation |-> Flag(am, "awaiting_confirmation"),
   plan_id |-> IF Has(am, "plan_id") /\ ~Falsy(am.plan_id) THEN am.plan_id ELSE Null]
ErrorMessage(id) == [id |-> id, role |-> "assistant", content |-> ErrorText]

\* the chat prop of ChatWindow: currentChat = activeChat ? chats[activeChat] : null
ChatShown == ~Falsy(activeChat) /\ InStore(chats, activeChat)
CurrentChat == Get(chats, activeChat)

\* a finally block that leaves the flag as it is
AfterFinallyKept(t) == isLoading

\* `finally { setIsLoading(false) }` of a turn whose ChatWindow is mounted
AfterFinally(t) == IF t.live THEN FALSE ELSE isLoading

\* a turn that never creates the session first
NeedsCreateNever(chat) == FALSE

\* `let serverId = chat.server_id || null; if (!serverId)`: the turn creates
\* the session first
NeedsCreate(chat) == ~HasServerId(chat)

\* the array as it was before the optimistic message was appended
PersistedMessagesStale(t) == t.before

\* the message array written together with server_id / persisted after
\* createChat has resolved
PersistedMessages(t) == t.messagesWithUser

\* a turn that writes no optimistic message
OptimisticMessagesNone(chat, userMessage) == Messages(chat)

\* `const messagesWithUser = [...chat.messages, userMessage]`, written to the
\* store by onUpdateMessages before the try block
OptimisticMessages(chat, userMessage) == Append(Messages(chat), userMessage)

\* handleSendMessage up to its first await
SendStart(content) ==
  /\ MainShown /\ ChatShown /\ ~isLoading
  /\ content \in Texts
  /\ nEvents' = nEvents + 1
  /\ quiet' = FALSE
  /\ LET chat == CurrentChat
         chatId == IdField(chat, "id")
         userMessage == [id |-> MsgUuid(ctr.msg), role |-> "user", content |-> content]
         messagesWithUser == OptimisticMessages(chat, userMessage)
         withUser == updateChatMessages(chats, chatId, messagesWithUser, EmptyObj)
         t == [n |-> ctr.proc, live |-> TRUE, chatId |-> chatId, content |-> content,
               userMessage |-> userMessage, before |-> Messages(chat),
               messagesWithUser |-> messagesWithUser,
               title |-> IF Has(chat, "title") /\ ~Falsy(chat.title) THEN chat.title ELSE NewChatTitle,
               transient |-> ~HasServerId(chat),
               pc |-> IF NeedsCreate(chat) THEN "create" ELSE "send",
               serverId |-> IF NeedsCreate(chat) THEN Null ELSE IdField(chat, "server_id"),
               created |-> Null, startEvents |-> nEvents + 1,
               racing |-> (deletes # {} \/ logouts > 0),
               auth |-> authSession, nCreate |-> IF NeedsCreate(chat) THEN 1 ELSE 0,
               nSend |-> IF NeedsCreate(chat) THEN 0 ELSE 1]
     IN IF Falsy(chatId)
        THEN /\ Settle(withUser, activeChat, user, authLoaded, loadMsg, FALSE, turns, <<>>,
                       [kind |-> "turnCancelled"], authSession)
             /\ ctr' = [ctr EXCEPT !.msg = @ + 1]
        ELSE /\ Settle(withUser, activeChat, user, authLoaded, loadMsg, TRUE, turns \cup {t},
                       IF t.pc = "create"
                       THEN <<Call("createSession", t.title, chatId, TRUE)>>
                       ELSE <<Call("sendMessage", t.serverId, chatId, FALSE)>>,
                       [kind |-> "turnStart", turn |-> t], authSession)
             /\ ctr' = [ctr EXCEPT !.msg = @ + 1, !.proc = @ + 1]
  /\ UNCHANGED <<authSession, srv, loadingChats, initialLoadDone, loads, selects, deletes, confirms,
                 logouts, nLoads, nInitial>>

\* a turn that writes its result to the session shown when it ends
TurnTargetActive(t) == activeChat

\* `onUpdateMessages(chat.id, ...)`: the key the turn writes its result to is
\* the id of the chat prop captured when the turn started
TurnTarget(t) == t.chatId

\* the catch block of handleSendMessage for a thrown Error, then finally
TurnFailed(t, message) ==
  LET errorMessages == Append(t.messagesWithUser, ErrorMessage(MsgUuid(ctr.msg)))
      swallowed == SwallowedError(message)
      done == [t EXCEPT !.pc = IF swallowed THEN "swallowed" ELSE "failed"]
  IN /\ Settle(IF swallowed THEN chats
               ELSE updateChatMessages(chats, TurnTarget(t), errorMessages, EmptyObj),
               activeChat, user, authLoaded, loadMsg, AfterFinally(t), turns \ {t}, <<>>,
               [kind |-> "turnEnd", turn |-> done, error |-> message], authSession)
     /\ ctr' = IF swallowed THEN ctr ELSE [ctr EXCEPT !.msg = @ + 1]

\* handleSendMessage after `await createChat(...)`
CreateResp(t) ==
  /\ t \in turns /\ t.pc = "create"
  /\ \/ /\ t.auth
        /\ LET serverId == ServerChatId(ctr.sid)
               t2 == [t EXCEPT !.pc = "send", !.serverId = serverId, !.created = serverId,
                               !.auth = authSession, !.nSend = @ + 1]
           IN /\ srv' = Append(srv, [id |-> serverId, title |-> t.title, msgs |-> <<>>])
              /\ Settle(updateChatMessages(chats, t.chatId, PersistedMessages(t),
                                           [server_id |-> serverId, persisted |-> TRUE]),
                        activeChat, user, authLoaded, loadMsg, isLoading, (turns \ {t}) \cup {t2},
                        <<Call("sendMessage", serverId, t.chatId, FALSE)>>,
                        [kind |-> "createApplied", turn |-> t2], authSession)
              /\ ctr' = [ctr EXCEPT !.sid = @ + 1]
     \/ /\ TurnFailed(t, CreateErrorMessage(IF t.auth THEN 500 ELSE 401))
        /\ UNCHANGED srv
  /\ UNCHANGED <<authSession, loadingChats, initialLoadDone, loads, selects, deletes, confirms, logouts,
                 nEvents, quiet, nLoads, nInitial>>

\* the backend stores the turn when the session exists
StoreTurn(server, target, content, am) ==
  [i \in 1..Len(server) |->
     IF server[i].id = target
     THEN [server[i] EXCEPT !.msgs = @ \o <<[id |-> ServerMsgId(ctr.mid), role |-> "user",
                                              content |-> content], am>>]
     ELSE server[i]]

\* handleSendMessage after `await sendMessage(...)`
SendResp(t) ==
  /\ t \in turns /\ t.pc = "send"
  /\ \/ /\ t.auth
        /\ \E awaiting \in BOOLEAN :
             LET am == [id |-> ServerMsgId(ctr.mid + 1), role |-> "assistant",
                        content |-> ServerText, awaiting_confirmation |-> awaiting,
                        plan_id |-> IF awaiting THEN "p" \o ToString(ctr.mid) ELSE Null]
                 finalMessages == Append(t.messagesWithUser, AssistantMessage(am))
             IN /\ srv' = StoreTurn(srv, t.serverId, t.content, am)
                /\ Settle(updateChatMessages(chats, TurnTarget(t), finalMessages, EmptyObj),
                          activeChat, user, authLoaded, loadMsg, AfterFinally(t), turns \ {t}, <<>>,
                          [kind |-> "turnEnd", turn |-> [t EXCEPT !.pc = "ok"], error |-> ""],
                          authSession)
                /\ ctr' = [ctr EXCEPT !.mid = @ + 2]
     \/ /\ \E resp \in SendFailures(t.serverId, t.auth) : TurnFailed(t, SendErrorMessage(resp))
        /\ UNCHANGED srv
  /\ UNCHANGED <<authSession, loadingChats, initialLoadDone, loads, selects, deletes, confirms, logouts,
                 nEvents, quiet, nLoads, nInitial>>

\* ----------------------------------------------------- plan confirmation
\* the text shown when the cancellation payload carries no result
CancelledText == "Plan otmenjon."

\* POST /confirm/{plan_id}: the approval payload { content, tables?, charts? }
\* and the cancellation payload { result }
ApprovalPayload == [content |-> "plan executed", tables |-> <<"t1">>]
CancellationPayload == [result |-> "plan cancelled"]

\* what confirmPlan(serverId, confirm, planId) resolves to, or a throw
ConfirmOutcomes(c) ==
  IF c.auth /\ OnServer(c.serverId)
  THEN {[ok |-> TRUE, resp |-> IF c.confirm THEN ApprovalPayload ELSE CancellationPayload],
        [ok |-> FALSE, resp |-> EmptyObj]}
  ELSE {[ok |-> FALSE, resp |-> EmptyObj]}

\* a resolution that only replaces the content
ResolvedMessageStillAwaiting(m, confirm, resp) ==
  Merge(m, [content |-> IF confirm THEN resp.content ELSE resp.result])

\* the copy `nm` of the target message after either branch
ResolvedMessage(m, confirm, resp) ==
  IF confirm
  THEN Merge(m, [content |-> IF Has(resp, "content") /\ ~Falsy(resp.content)
                             THEN resp.content ELSE m.content,
                 tables |-> IF Has(resp, "tables") THEN resp.tables
                            ELSE IF Has(m, "tables") THEN m.tables ELSE <<>>,
                 charts |-> IF Has(resp, "charts") THEN resp.charts
                            ELSE IF Has(m, "charts") THEN m.charts ELSE <<>>,
                 awaiting_confirmation |-> FALSE,
                 confirmation_summary |-> Null,
                 plan_id |-> Null])
  ELSE Merge(m, [content |-> IF Has(resp, "result") /\ ~Falsy(resp.result)
                             THEN resp.result ELSE CancelledText,
                 awaiting_confirmation |-> FALSE,
                 confirmation_summary |-> Null,
                 plan_id |-> Null])

\* the messages MessageList renders, each with the onConfirm handler
ShownMessages == IF ChatShown THEN Messages(CurrentChat) ELSE <<>>

\* chat.messages.map(...) over the array the handler's closure holds
ResolvedMessages(c, resp) ==
  [i \in 1..Len(c.snapshot) |->
     IF c.snapshot[i].id # c.messageId THEN c.snapshot[i]
     ELSE ResolvedMessage(c.snapshot[i], c.confirm, resp)]

\* a handler that never refuses
ConfirmRefusedNever(serverId, planId) == FALSE

\* `if (!serverId) { alert(...); return }` and `if (!planId) { alert(...); return }`
ConfirmRefused(serverId, planId) == Falsy(serverId) \/ Falsy(planId)

\* handleConfirmPlan(messageId, confirm) up to `await confirmPlan(...)`; k is
\* the rendered message whose approve / cancel control is used
ConfirmStart(k, confirm) ==
  /\ MainShown /\ ChatShown
  /\ k \in 1..Len(ShownMessages)
  /\ nEvents' = nEvents + 1
  /\ quiet' = FALSE
  /\ LET chat == CurrentChat
         messageId == Messages(chat)[k].id
         serverId == IdField(chat, "server_id")
         first == CHOOSE i \in 1..Len(Messages(chat)) :
                    /\ Messages(chat)[i].id = messageId
                    /\ \A j \in 1..(i - 1) : Messages(chat)[j].id # messageId
         msg == Messages(chat)[first]
         planId == IF Has(msg, "plan_id") /\ ~Falsy(msg.plan_id) THEN msg.plan_id ELSE Null
         c == [n |-> ctr.proc, chatId |-> IdField(chat, "id"), entry |-> activeChat,
               messageId |-> messageId, confirm |-> confirm, planId |-> planId,
               serverId |-> serverId, snapshot |-> Messages(chat), auth |-> authSession]
     IN IF ConfirmRefused(serverId, planId)
        THEN /\ Settle(chats, activeChat, user, authLoaded, loadMsg, isLoading, turns, <<>>,
                       [kind |-> "confirmRejected",
                        alert |-> IF Falsy(serverId) THEN "not saved on the server" ELSE "no plan_id",
                        transient |-> ~HasServerId(chat), planId |-> planId], authSession)
             /\ UNCHANGED <<confirms, ctr>>
        ELSE /\ confirms' = confirms \cup {c}
             /\ ctr' = [ctr EXCEPT !.proc = @ + 1]
             /\ Settle(chats, activeChat, user, authLoaded, loadMsg, isLoading, turns,
                       <<Call("resolveConfirmation", planId, activeChat, ~HasServerId(chat))>>,
                       [kind |-> "confirmStart", conf |-> c], authSession)
  /\ UNCHANGED <<authSession, srv, loadingChats, initialLoadDone, loads, selects, deletes,
                 logouts, nLoads, nInitial>>

\* handleConfirmPlan after the await: the message array is rebuilt from the
\* closure's chat.messages and written; a throw is alerted
ConfirmResp(c) ==
  /\ c \in confirms
  /\ confirms' = confirms \ {c}
  /\ \E r \in ConfirmOutcomes(c) :
       IF r.ok
       THEN Settle(updateChatMessages(chats, c.chatId, ResolvedMessages(c, r.resp), EmptyObj),
                   activeChat, user, authLoaded, loadMsg, isLoading, turns, <<>>,
                   [kind |-> "confirmApplied", conf |-> c, resp |-> r.resp,
                    inStore |-> InStore(chats, c.chatId),
                    before |-> Messages(GetOrEmpty(chats, c.chatId))], authSession)
       ELSE Settle(chats, activeChat, user, authLoaded, loadMsg, isLoading, turns, <<>>,
                   [kind |-> "confirmFailed", conf |-> c], authSession)
  /\ UNCHANGED <<authSession, srv, ctr, loadingChats, initialLoadDone, loads, selects, deletes,
                 logouts, nEvents, quiet, nLoads, nInitial>>

\* ------------------------------------------------------------------ spec
\* every handler and every resumption of one; the user and the auth provider
\* act at most MaxEvents times, and tasks (events, network responses) wait
\* while a load is in the microtask gap of `await createInitialChat()`
Next ==
  \/ \E l \in loads : LoadRestore(l)
  \/ \E l \in loads : LoadCheck(l)
  \/ \E l \in loads : LoadEnsured(l)
  \/ ~InGap /\ \E l \in loads : LoadFetchResp(l)
  \/ ~InGap /\ nEvents < MaxEvents /\ SignIn
  \/ ~InGap /\ nEvents < MaxEvents /\ Register
  \/ ~InGap /\ nEvents < MaxEvents /\ SignedInEvent
  \/ ~InGap /\ nEvents < MaxEvents /\ SignedOutEvent
  \/ ~InGap /\ nEvents < MaxEvents /\ LogoutStart
  \/ ~InGap /\ LogoutFinish
  \/ ~InGap /\ nEvents < MaxEvents /\ NewChat
  \/ ~InGap /\ nEvents < MaxEvents /\ \E i \in 1..Len(chats) : SelectChat(i)
  \/ ~InGap /\ nEvents < MaxEvents /\ \E i \in 1..Len(chats) : DeleteChat(i)
  \/ ~InGap /\ \E s \in selects : SelectResp(s)
  \/ ~InGap /\ LoadMessagesResp
  \/ ~InGap /\ \E d \in deletes : DeleteResp(d)
  \/ ~InGap /\ \E d \in deletes : DeleteRefreshResp(d)
  \/ ~InGap /\ nEvents < MaxEvents /\ \E c \in Texts : SendStart(c)
  \/ ~InGap /\ \E t \in turns : CreateResp(t)
  \/ ~InGap /\ \E t \in turns : SendResp(t)
  \/ ~InGap /\ nEvents < MaxEvents /\
       \E k \in 1..Len(ShownMessages), confirm \in BOOLEAN : ConfirmStart(k, confirm)
  \/ ~InGap /\ \E c \in confirms : ConfirmResp(c)

Spec == Init /\ [][Next]_vars

\* the same program with a user who only signs in, signs out and sends: the
\* ChatWindow is unmounted and mounted again while requests are in flight
ReloginNext ==
  \/ \E l \in loads : LoadRestore(l)
  \/ \E l \in loads : LoadCheck(l)
  \/ \E l \in loads : LoadEnsured(l)
  \/ ~InGap /\ \E l \in loads : LoadFetchResp(l)
  \/ ~InGap /\ nEvents < MaxReloginEvents /\ SignIn
  \/ ~InGap /\ nEvents < MaxReloginEvents /\ SignedOutEvent
  \/ ~InGap /\ nEvents < MaxReloginEvents /\ LogoutStart
  \/ ~InGap /\ LogoutFinish
  \/ ~InGap /\ LoadMessagesResp
  \/ ~InGap /\ nEvents < MaxReloginEvents /\ \E c \in Texts : SendStart(c)
  \/ ~InGap /\ \E t \in turns : CreateResp(t)
  \/ ~InGap /\ \E t \in turns : SendResp(t)

ReloginSpec == Init /\ [][ReloginNext]_vars

\* the same program with a user who only signs in, sends, and loses the
\* session; every awaited call of a load and of a send turn eventually
\* returns or fails, and the continuation of an awaited createInitialChat()
\* runs
TurnNext ==
  \/ \E l \in loads : LoadRestore(l)
  \/ \E l \in loads : LoadCheck(l)
  \/ \E l \in loads : LoadEnsured(l)
  \/ ~InGap /\ \E l \in loads : LoadFetchResp(l)
  \/ ~InGap /\ nEvents < MaxTurnEvents /\ SignIn
  \/ ~InGap /\ nEvents < MaxTurnEvents /\ SignedOutEvent
  \/ ~InGap /\ LoadMessagesResp
  \/ ~InGap /\ nEvents < MaxTurnEvents /\ \E c \in Texts : SendStart(c)
  \/ ~InGap /\ \E t \in turns : CreateResp(t)
  \/ ~InGap /\ \E t \in turns : SendResp(t)

FairSpec ==
  /\ Init /\ [][TurnNext]_vars
  /\ WF_vars(\E l \in loads : LoadRestore(l))
  /\ WF_vars(\E l \in loads : LoadCheck(l))
  /\ WF_vars(~InGap /\ \E l \in loads : LoadFetchResp(l))
  /\ WF_vars(\E l \in loads : LoadEnsured(l))
  /\ WF_vars(~InGap /\ \E t \in turns : CreateResp(t))
  /\ WF_vars(~InGap /\ \E t \in turns : SendResp(t))

\* ================================================================ claims
StoreEntries == {chats[i].v : i \in 1..Len(chats)}

\* C1: every session of the store whose server id is null (or absent) is
\* not persisted, whichever code wrote the entry: ensure-initial, new chat,
\* a listing merge, the lazy creation of a send turn, or a late response.
C1_TransientNotPersisted ==
  \A c \in StoreEntries : ~HasServerId(c) => ~Flag(c, "persisted")

\* C1 witness: an entry without a server id that a late response wrote
\* into the store (it has no id field of its own), next to the invariant's
\* ordinary case of a transient chat created locally.
C1_Witness ==
  \E c \in StoreEntries : ~HasServerId(c) /\ ~Has(c, "id") /\ ~NoMessages(c)

\* C2: every session of the store that is a preview has a server id.
C2_PreviewHasServerId ==
  \A c \in StoreEntries : Flag(c, "preview") => HasServerId(c)

\* C2 witness: a preview entry merged from a listing is in the store.
C2_Witness ==
  \E c \in StoreEntries : Flag(c, "preview") /\ HasServerId(c)

\* the createSession / sendMessage calls the last step issued, in order
TurnCalls == SelectSeq(last.calls, LAMBDA c : c.op \in {"createSession", "sendMessage"})
\* the store entry a turn writes to
TurnEntry(t) == GetOrEmpty(chats, t.chatId)
InMessages(m, c) == \E k \in 1..Len(Messages(c)) : Messages(c)[k] = m

C4_OptimisticMessageKept ==
  /\ last.ev.kind = "createApplied"
       => /\ InStore(chats, last.ev.turn.chatId)
          /\ HasServerId(TurnEntry(last.ev.turn))
          /\ Flag(TurnEntry(last.ev.turn), "persisted")
          /\ InMessages(last.ev.turn.userMessage, TurnEntry(last.ev.turn))
  /\ (last.ev.kind = "turnEnd" /\ last.ev.turn.transient /\ last.ev.turn.pc \in {"ok", "failed"})
       => /\ InStore(chats, last.ev.turn.chatId)
          /\ InMessages(last.ev.turn.userMessage, TurnEntry(last.ev.turn))

\* C4 witness: the createSession response of a turn has just been applied
\* after other steps ran since the turn started, and the optimistic message
\* is in the array.
C4_Witness ==
  /\ last.ev.kind = "createApplied"
  /\ InMessages(last.ev.turn.userMessage, TurnEntry(last.ev.turn))
  /\ nEvents > last.ev.turn.startEvents

\* the listMessages calls the last step issued, in order
ListCalls == SelectSeq(last.calls, LAMBDA c : c.op = "listMessages")

\* C5: every step that puts a server listing into the store (the merge of
\* the startup / sign-in load, the refresh after a failed remote delete)
\* keeps every entry without a server id that was in the store before it.
C5_ListingKeepsTransient ==
  [][last'.ev.kind \in {"listingMerged", "listingRefreshed"}
       => \A i \in 1..Len(chats) :
            ~HasServerId(chats[i].v) => InStore(chats', chats[i].k)]_vars

\* C6: no listMessages call is issued for a store entry whose server id is
\* null, neither by the selection handler nor by the activation effect.
C6_NoListMessagesForTransient ==
  \A k \in 1..Len(ListCalls) : ~ListCalls[k].transient

\* C7 as stated: the selection of a preview issues exactly one listMessages
\* call, addressed by the server id: one when the handler starts and none
\* when its response is applied.
C7_Original ==
  /\ (last.ev.kind = "selectStart" /\ last.ev.sel.wasPreview)
       => ListCalls = <<Call("listMessages", last.ev.sel.serverId, last.ev.sel.entry, FALSE)>>
  /\ (last.ev.kind = "selectEnd" /\ last.ev.sel.wasPreview) => ListCalls = <<>>

\* C7 amended: the selection handler of a preview issues exactly one
\* listMessages call, addressed by the server id; when it succeeds the
\* entry's messages are the returned history in order and preview is false,
\* and with a non-empty history no further call follows; when it fails (or
\* returns nothing) the activation of the session issues at most one more
\* listMessages call, for the same session.
C7_PreviewSelection ==
  /\ (last.ev.kind = "selectStart" /\ last.ev.sel.wasPreview)
       => /\ last.ev.sel.serverId # Null
          /\ ListCalls = <<Call("listMessages", last.ev.sel.serverId, last.ev.sel.entry, FALSE)>>
  /\ (last.ev.kind = "selectEnd" /\ last.ev.sel.wasPreview /\ last.ev.ok)
       => LET c == GetOrEmpty(chats, last.ev.sel.chatId)
              h == last.ev.history
          IN /\ InStore(chats, last.ev.sel.chatId)
             /\ ~Flag(c, "preview")
             /\ Len(Messages(c)) = Len(h)
             /\ \A k \in 1..Len(h) :
                  /\ Messages(c)[k].id = h[k].id
                  /\ Messages(c)[k].role = h[k].role
                  /\ Messages(c)[k].content = h[k].content
             /\ Len(h) > 0 => ListCalls = <<>>
  /\ (last.ev.kind = "selectEnd" /\ last.ev.sel.wasPreview)
       => /\ Len(ListCalls) <= 1
          /\ \A k \in 1..Len(ListCalls) :
               /\ ListCalls[k].entry = last.ev.sel.chatId
               /\ ListCalls[k].target \in {last.ev.sel.chatId, last.ev.sel.serverId}

\* C7 witness: the response of a preview's selection has been applied with
\* the full history, which is longer than the preview's single message.
C7_Witness ==
  /\ last.ev.kind = "selectEnd" /\ last.ev.sel.wasPreview /\ last.ev.ok
  /\ Len(last.ev.history) > 1
  /\ Len(Messages(GetOrEmpty(chats, last.ev.sel.chatId))) = Len(last.ev.history)

\* C8: every store entry has at most one message awaiting confirmation.
C8_OneAwaiting ==
  \A c \in StoreEntries :
    Cardinality({k \in 1..Len(Messages(c)) : Flag(Messages(c)[k], "awaiting_confirmation")}) <= 1

\* C9: with an authenticated user, no session on the server and nothing done
\* by the user, once the initial load has completed the store holds exactly
\* one session, which is transient (no server id, not persisted) and active.
C9_InitialSession ==
  (quiet /\ authSession /\ srv = <<>> /\ initialLoadDone)
    => /\ Len(chats) = 1
       /\ ~HasServerId(chats[1].v)
       /\ ~Flag(chats[1].v, "persisted")
       /\ activeChat = chats[1].k

\* C9 witness: the initial load of an authenticated user with no server
\* session has completed and its getChats call was answered.
C9_Witness ==
  /\ quiet /\ authSession /\ srv = <<>> /\ initialLoadDone /\ loads = {}
  /\ last.ev.kind = "listingMerged"
  /\ Len(chats) = 1

\* C10: a turn that sends text T on an empty transient session, whose
\* createSession and sendMessage both succeed, which starts while no delete
\* or logout handler is still awaiting and during which the user does
\* nothing else, ends with the messages [user T, assistant with the server's
\* content], the session persisted with a server id, and the title cut from
\* T (T itself when T is short).
C10_FirstTurn ==
  (/\ last.ev.kind = "turnEnd" /\ last.ev.turn.pc = "ok"
   /\ last.ev.turn.transient /\ last.ev.turn.before = <<>>
   /\ ~last.ev.turn.racing /\ nEvents = last.ev.turn.startEvents)
    => LET c == TurnEntry(last.ev.turn)
           T == last.ev.turn.content
       IN /\ InStore(chats, last.ev.turn.chatId)
          /\ Len(Messages(c)) = 2
          /\ Messages(c)[1].role = "user" /\ Messages(c)[1].content = T
          /\ Messages(c)[2].role = "assistant" /\ Messages(c)[2].content = ServerText
          /\ Flag(c, "persisted")
          /\ HasServerId(c) /\ c.server_id = last.ev.turn.created
          /\ c.title = (IF Len(T) <= TitleSlice THEN T ELSE SubSeq(T, 1, TitleSlice) \o "...")

\* C10 witness: such a turn has ended for the short text, and the title is
\* the text.
C10_Witness ==
  /\ last.ev.kind = "turnEnd" /\ last.ev.turn.pc = "ok"
  /\ last.ev.turn.transient /\ last.ev.turn.before = <<>>
  /\ ~last.ev.turn.racing /\ nEvents = last.ev.turn.startEvents
  /\ last.ev.turn.content = Hello
  /\ TurnEntry(last.ev.turn).title = Hello

\* the Error message api/chat.js throws for the deleted-during-processing 404
SessionGoneMessage == SendErrorMessage(GoneResp)

\* C11: the step that ends a turn whose sendMessage failed with the
\* deleted-during-processing 404 leaves the store as it was (no error
\* message is appended; what the turn has written is the earlier messages
\* plus the optimistic user message), the error is swallowed by the catch
\* block, and the in-flight flag of the mounted window is cleared.
C11_SessionGoneSilent ==
  [][(last'.ev.kind = "turnEnd" /\ last'.ev.error = SessionGoneMessage)
       => /\ chats' = chats
          /\ last'.ev.turn.pc = "swallowed"
          /\ last'.ev.turn.messagesWithUser
               = Append(last'.ev.turn.before, last'.ev.turn.userMessage)
          /\ last'.ev.turn.live => ~isLoading']_vars

\* C11 witness: a turn has ended on the deleted-during-processing 404.
C11_Witness ==
  /\ last.ev.kind = "turnEnd" /\ last.ev.error = SessionGoneMessage
  /\ last.ev.turn.pc = "swallowed"

\* C12: every turn whose createSession or sendMessage failed with anything
\* but the deleted-during-processing 404 ends with exactly one assistant
\* error message with the fixed text written right after the turn's
\* messages up to the optimistic user message.
C12_OtherFailuresShowError ==
  (last.ev.kind = "turnEnd" /\ last.ev.error # "" /\ last.ev.error # SessionGoneMessage)
    => LET t == last.ev.turn
           ms == Messages(TurnEntry(t))
       IN /\ t.pc = "failed"
          /\ Len(ms) = Len(t.messagesWithUser) + 1
          /\ SubSeq(ms, 1, Len(t.messagesWithUser)) = t.messagesWithUser
          /\ ms[Len(ms)].role = "assistant" /\ ms[Len(ms)].content = ErrorText

\* the messages of the session a confirmation was started on, after the step
ConfirmedMessages == Messages(GetOrEmpty(chats, last.ev.conf.chatId))
\* the message the resolution was asked for, as it is in the store
ConfirmedTargets ==
  {k \in 1..Len(ConfirmedMessages) : ConfirmedMessages[k].id = last.ev.conf.messageId}

\* C13: the step that applies a confirmation resolution leaves the session's
\* message array with the length, ids and roles it had immediately before
\* the step; every message but the target is unchanged.
C13_ResolutionInPlace ==
  last.ev.kind = "confirmApplied"
    => /\ Len(ConfirmedMessages) = Len(last.ev.before)
       /\ \A k \in 1..Len(last.ev.before) :
            k <= Len(ConfirmedMessages) =>
              /\ ConfirmedMessages[k].id = last.ev.before[k].id
              /\ ConfirmedMessages[k].role = last.ev.before[k].role
              /\ last.ev.before[k].id # last.ev.conf.messageId
                   => ConfirmedMessages[k] = last.ev.before[k]

C16_OneTurnPerSession ==
  \A t1 \in turns : \A t2 \in turns : t1.chatId = t2.chatId => t1 = t2

\* C17: a step that applies a response (the server id after createSession,
\* the assistant or error message of a turn, a confirmation resolution, the
\* messages after listMessages) leaves the store unchanged when its target
\* session is no longer in the store: a deleted session does not reappear
C17_NoResurrection ==
  [][/\ (last'.ev.kind \in {"createApplied", "turnEnd"} /\ ~InStore(chats, last'.ev.turn.chatId))
          => chats' = chats
     /\ (last'.ev.kind = "confirmApplied" /\ ~InStore(chats, last'.ev.conf.chatId))
          => chats' = chats
     /\ (last'.ev.kind = "selectEnd" /\ ~InStore(chats, last'.ev.sel.chatId))
          => chats' = chats]_vars

\* C18: no send turn is started on a session that contains a message awaiting
\* confirmation (before is the session's message array when the turn started)
C18_NoSendWhileAwaiting ==
  \A t \in turns : \A k \in 1..Len(t.before) : ~Flag(t.before[k], "awaiting_confirmation")

\* C19: between two sign-outs, whatever the interleaving of the running
\* loads, the ensure-initial step creates a transient session at most once
C19_EnsureInitialOnce == nInitial <= 1

C21_LoadingPerSession ==
  (MainShown /\ ChatShown /\ isLoading) => \E t \in turns : t.chatId = activeChat

\* C22: resolveConfirmation is never called for a session without a server
\* id nor for a message without a plan id; a confirmation invoked in either
\* case raises an alert, issues no call and leaves the store unchanged
C22_ConfirmationNeedsIds ==
  [][/\ \A i \in 1..Len(last'.calls) :
          last'.calls[i].op = "resolveConfirmation"
            => /\ ~last'.calls[i].transient
               /\ ~Falsy(last'.calls[i].target)
               /\ last'.ev.kind = "confirmStart"
               /\ ~Falsy(last'.ev.conf.serverId)
     /\ last'.ev.kind = "confirmRejected"
          => /\ last'.ev.transient \/ Falsy(last'.ev.planId)
             /\ last'.ev.alert # ""
             /\ last'.calls = <<>>
             /\ chats' = chats
             /\ confirms' = confirms]_vars

\* C22 witness: a confirmation was invoked on a session without a server id
\* and was refused.
C22_Witness ==
  /\ last.ev.kind = "confirmRejected" /\ last.ev.transient
  /\ ~HasServerId(GetOrEmpty(chats, activeChat))

\* C23: a step that handles a sign-out (the SIGNED_OUT callback, or
\* handleLogout after signOut has returned) ends with the store empty, no
\* active session and the one-shot flag cleared
C23_SignOutClears ==
  [][((authSession /\ ~authSession') \/ logouts' < logouts)
       => (chats' = <<>> /\ activeChat' = Null /\ ~initialLoadDone')]_vars

\* C23 witness: the initial session had been created (the flag was set) and a
\* sign-out has been handled since.
C23_Witness ==
  /\ ctr.chat > 1 /\ loads = {}
  /\ ~authSession /\ ~user
  /\ chats = <<>> /\ activeChat = Null /\ ~initialLoadDone

\* C24: after every sign-in (SIGNED_IN delivered to the application), also
\* one that follows a load that found no session, listSessions is eventually
\* called, unless the session has ended before
C24_SignInLists ==
  (last.ev.kind = "signedIn")
    ~> ((\E i \in 1..Len(last.calls) : last.calls[i].op = "listSessions") \/ ~authSession)

\* C25: a step that updates a session's messages (send turn, history load,
\* confirmation resolution), that is every step but a merge or a refresh of
\* the listing, leaves the title of every stored session that has a server
\* id as it was; the title is derived from the first message only for a
\* session stored without a server id
C25_TitleFrozen ==
  [][(last'.ev.kind \notin {"listingMerged", "listingRefreshed"})
       => \A i \in 1..Len(chats) :
            (HasServerId(chats[i].v) /\ InStore(chats', chats[i].k))
              => IdField(Get(chats', chats[i].k), "title") = IdField(chats[i].v, "title")]_vars

\* C25 witness: the history of a persisted session has been loaded, its first
\* message is the user's, and the title is not the one derived from it.
C25_Witness ==
  /\ last.ev.kind = "selectEnd" /\ last.ev.ok
  /\ LET c == GetOrEmpty(chats, last.ev.sel.chatId)
     IN /\ HasServerId(c)
        /\ Len(Messages(c)) > 0 /\ Messages(c)[1].role = "user"
        /\ IdField(c, "title") # DeriveTitle(Messages(c)[1].content)

\* C26: a delete calls deleteSession only for a session that is persisted
\* with a server id when it is deleted; the delete of a session without a
\* server id removes it from the store and calls no deleteSession
C26_RemoteDeleteOnlyPersisted ==
  [][last'.ev.kind = "deleteStart"
       => /\ \A i \in 1..Len(last'.calls) :
               last'.calls[i].op = "deleteSession"
                 => (last'.ev.hadServerId /\ last'.ev.wasPersisted)
          /\ ~last'.ev.hadServerId
               => /\ ~InStore(chats', last'.ev.entry)
                  /\ \A i \in 1..Len(last'.calls) : last'.calls[i].op # "deleteSession"]_vars

\* C27: for every session, persisted never goes back to false and a server
\* id, once set, never changes, also when a turn that ran against that server
\* id writes its result; createSession is called only by the start of a send
\* turn on a session stored without a server id, and a createSession response
\* is applied only to a session that has none yet
C27_PersistedOnce ==
  [][/\ \A i \in 1..Len(chats) :
          InStore(chats', chats[i].k)
            => /\ Flag(chats[i].v, "persisted") => Flag(Get(chats', chats[i].k), "persisted")
               /\ HasServerId(chats[i].v)
                    => IdField(Get(chats', chats[i].k), "server_id") = chats[i].v.server_id
     /\ (last'.ev.kind = "turnEnd" /\ ~Falsy(last'.ev.turn.serverId)
           /\ InStore(chats', last'.ev.turn.chatId))
          => /\ Flag(Get(chats', last'.ev.turn.chatId), "persisted")
             /\ IdField(Get(chats', last'.ev.turn.chatId), "server_id") = last'.ev.turn.serverId
     /\ \A i \in 1..Len(last'.calls) :
          last'.calls[i].op = "createSession"
            => /\ last'.ev.kind = "turnStart"
               /\ last'.calls[i].entry = last'.ev.turn.chatId
               /\ InStore(chats, last'.calls[i].entry)
               /\ ~HasServerId(Get(chats, last'.calls[i].entry))
     /\ last'.ev.kind = "createApplied"
          => /\ ~HasServerId(GetOrEmpty(chats, last'.ev.turn.chatId))
             /\ ~Flag(GetOrEmpty(chats, last'.ev.turn.chatId), "persisted")
             /\ Get(chats', last'.ev.turn.chatId).server_id = last'.ev.turn.created
             /\ Flag(Get(chats', last'.ev.turn.chatId), "persisted")]_vars

\* C29: for every status and every body the backend can answer with,
\* listSessions and listMessages resolve to the empty sequence on 401 and 403
\* and throw on every other status outside 200..299; the selections and the
\* listing refreshes that ran resolved accordingly
C29_UnauthorizedIsEmpty ==
  /\ \A status \in {304, 400, 401, 403, 404, 500, 503} :
       /\ getChats(status, Listing(srv)) =
            [ok |-> status \in {401, 403}, list |-> <<>>, status |-> status]
       /\ \A i \in 1..Len(srv) :
            getChatMessages(status, srv[i].msgs) =
              [ok |-> status \in {401, 403}, msgs |-> <<>>, status |-> status]
  /\ (last.ev.kind = "selectEnd" /\ last.ev.status \notin 200..299)
       => /\ last.ev.ok = (last.ev.status \in {401, 403})
          /\ last.ev.history = <<>>
  /\ (last.ev.kind = "listingRefreshed" /\ last.ev.status \notin 200..299)
       => /\ last.ev.status \in {401, 403}
          /\ last.ev.list = <<>>

\* C29 witness: a selection whose listMessages call was answered 401 or 403
\* for a session with a stored history has resolved with the empty sequence
C29_Witness ==
  /\ last.ev.kind = "selectEnd"
  /\ last.ev.status \in {401, 403}
  /\ last.ev.ok
  /\ last.ev.history = <<>>
  /\ HistoryOf(last.ev.sel.target) # <<>>

\* ------------------------------------------------- requests of the client
\* api/chat.js getAuthHeaders: the Authorization header when the provider
\* returns a session with an access token, no header otherwise
getAuthHeaders(session) ==
  IF session THEN [Authorization |-> "Bearer token"] ELSE EmptyObj

\* the requests createChat, sendMessage and deleteChat issue for a call made
\* while the provider has (or has not) a session: one fetch, whatever
\* getAuthHeaders returned
Fetches(c, session) ==
  LET authHeaders == getAuthHeaders(session)
  IN CASE c.op = "createSession" ->
            <<[method |-> "POST", url |-> "/api/v1/chats",
               headers |-> Merge([ContentType |-> "application/json"], authHeaders)]>>
       [] c.op = "sendMessage" ->
            <<[method |-> "POST", url |-> "/api/v1/chats/" \o c.target \o "/messages",
               headers |-> authHeaders]>>
       [] c.op = "deleteSession" ->
            <<[method |-> "DELETE", url |-> "/api/v1/chats/" \o c.target,
               headers |-> authHeaders]>>

\* C28: a createSession, sendMessage or deleteSession call made while the
\* auth provider has no session issues no HTTP request
C28_NoTokenNoRequest ==
  \A i \in 1..Len(last.calls) :
    (last.calls[i].op \in {"createSession", "sendMessage", "deleteSession"} /\ ~authSession)
      => Fetches(last.calls[i], authSession) = <<>>

\* C30: when listMessages fails during the selection of a preview session,
\* the selection ends with that session active and writes nothing to the
\* Store (messages and preview flag of every entry stay as they were), and
\* the selection is over (the failure is caught)
C30_FailedPrefetchStillSelects ==
  [][(last'.ev.kind = "selectEnd" /\ ~last'.ev.ok /\ last'.ev.sel.wasPreview)
       => /\ activeChat' = last'.ev.sel.chatId
          /\ chats' = chats
          /\ last'.ev.sel \notin selects']_vars

\* C30 witness: a preview session was selected, listMessages failed, and the
\* session is the active one, still a preview with the messages it had
C30_Witness ==
  /\ last.ev.kind = "selectEnd" /\ ~last.ev.ok /\ last.ev.sel.wasPreview
  /\ last.ev.status \in {404, 500}
  /\ activeChat = last.ev.sel.chatId
  /\ InStore(chats, activeChat)
  /\ Flag(Get(chats, activeChat), "preview")

\* C31: in the step of a send turn that issues the turn's first network call
\* (createSession or sendMessage), the store entry of the session already
\* ends with the optimistic user message; no call of the turn precedes it
C31_OptimisticBeforeCall ==
  /\ last.ev.kind = "turnStart"
       => /\ InStore(chats, last.ev.turn.chatId)
          /\ Messages(TurnEntry(last.ev.turn)) =
               Append(last.ev.turn.before, last.ev.turn.userMessage)
          /\ Len(last.calls) >= 1
          /\ last.calls[1].op = (IF last.ev.turn.transient THEN "createSession" ELSE "sendMessage")
          /\ last.calls[1].entry = last.ev.turn.chatId
          /\ last.ev.turn.nCreate + last.ev.turn.nSend = 1
  /\ \A i \in 1..Len(last.calls) :
       last.calls[i].op \in {"createSession", "sendMessage"}
         => last.ev.kind \in {"turnStart", "createApplied"}

\* C31 witness: a turn on a session that already had messages has started;
\* its user message is stored and the first call is out
C31_Witness ==
  /\ last.ev.kind = "turnStart"
  /\ last.ev.turn.before # <<>>
  /\ Len(last.calls) >= 1
  /\ last.calls[1].op = "sendMessage"
  /\ InMessages(last.ev.turn.userMessage, TurnEntry(last.ev.turn))

\* C32: the step in which a first load finishes (listing merged and initial
\* session ensured) leaves every listed server session and the synthesized
\* transient session in the store, the latter under a key that was free, and
\* keeps unchanged every entry whose key is not a listed id; the merge of a
\* later load keeps every entry and changes none whose key is not a listed id
C32_MergeAndEnsureCommute ==
  [][\A l \in loads :
       /\ (l.pc = "ensure" /\ l \notin loads')
            => /\ \A i \in 1..Len(l.list) :
                    /\ InStore(chats', l.list[i].id)
                    /\ IdField(Get(chats', l.list[i].id), "server_id") = l.list[i].id
               /\ ~InStore(chats, LocalId(ctr.chat))
               /\ InStore(chats', LocalId(ctr.chat))
               /\ ~HasServerId(Get(chats', LocalId(ctr.chat)))
               /\ \A j \in 1..Len(chats) :
                    /\ InStore(chats', chats[j].k)
                    /\ (\A i \in 1..Len(l.list) : l.list[i].id # chats[j].k)
                         => Get(chats', chats[j].k) = chats[j].v
       /\ (l.pc = "fetch" /\ l \notin loads' /\ ~FirstLoad)
            => \A j \in 1..Len(chats) :
                 /\ InStore(chats', chats[j].k)
                 /\ ~OnServer(chats[j].k) => Get(chats', chats[j].k) = chats[j].v]_vars

\* C32 witness: a first load that listed a server session has finished
\* while a transient session written by another step was in the store; the
\* store holds the listed session, that transient session and the new one
C32_Witness ==
  /\ last.ev.kind = "listingMerged"
  /\ initialLoadDone
  /\ \E i \in 1..Len(chats) : HasServerId(chats[i].v) /\ Flag(chats[i].v, "persisted")
  /\ Cardinality({i \in 1..Len(chats) : ~HasServerId(chats[i].v)}) >= 2

\* C33: in every state the active session id is null or the key of a session
\* in the store
C33_ActiveInStore == activeChat = Null \/ InStore(chats, activeChat)

\* C34: a click on the Sidebar row of a session in the store leaves that
\* session in the store; a click on a transient session also makes it the
\* active session in the same step
C34_SelectKeepsSession ==
  [][/\ last'.ev.kind = "selected"
          => InStore(chats', last'.ev.chatId) /\ activeChat' = last'.ev.chatId
     /\ last'.ev.kind = "selectStart"
          => InStore(chats', last'.ev.sel.entry)]_vars

\* C35: no two entries of the store carry the same server id
C35_OneEntryPerServerSession ==
  \A i, j \in 1..Len(chats) :
    (i # j /\ HasServerId(chats[i].v) /\ HasServerId(chats[j].v))
      => chats[i].v.server_id # chats[j].v.server_id

\* C36: a resolveConfirmation call is issued for a plan only when no earlier
\* call for the same plan is outstanding
C36_OneRequestPerPlan ==
  [][last'.ev.kind = "confirmStart"
       => \A c \in confirms : c.planId # last'.ev.conf.planId]_vars

\* C37: when a send turn and a confirmation resolution overlap on a session,
\* neither write undoes the other: the write of the resolution keeps the user
\* message of a turn in flight on that session, and the last write of a turn
\* keeps a message that the resolution had rewritten as it was stored
C37_TurnAndResolutionKeepEachOther ==
  [][/\ (last'.ev.kind = "confirmApplied" /\ InStore(chats, last'.ev.conf.chatId))
          => \A t \in turns :
               (t.chatId = last'.ev.conf.chatId
                  /\ InMessages(t.userMessage, Get(chats, t.chatId)))
                 => InMessages(t.userMessage, Get(chats', t.chatId))
     /\ (last'.ev.kind = "turnEnd" /\ last'.ev.turn.pc = "ok"
           /\ InStore(chats, last'.ev.turn.chatId))
          => LET before == Messages(Get(chats, last'.ev.turn.chatId))
                 after == Messages(Get(chats', last'.ev.turn.chatId))
             IN \A i \in 1..Len(before), j \in 1..Len(after) :
                  (/\ before[i].id = after[j].id
                   /\ before[i].content \in {ApprovalPayload.content, CancellationPayload.result})
                    => after[j] = before[i]]_vars

\* C38: while nobody is signed in and the store is empty, the response of a
\* call (listSessions, createSession, sendMessage, listMessages,
\* resolveConfirmation) leaves the store empty and the one-shot flag as it is
C38_SignedOutStaysEmpty ==
  [][(/\ chats = <<>> /\ ~authSession /\ ~user
      /\ last'.ev.kind \in {"listingMerged", "listingRefreshed", "createApplied", "turnEnd",
                            "selectEnd", "confirmApplied"})
       => (chats' = <<>> /\ initialLoadDone' = initialLoadDone)]_vars

\* C39: a stored session whose preview flag is not set holds no synthetic
\* preview message (id "<serverId>-preview")
C39_NoPreviewMessageOutsidePreview ==
  \A i \in 1..Len(chats) :
    ~Flag(chats[i].v, "preview")
      => \A j \in 1..Len(Messages(chats[i].v)) :
           \A n \in 1..(MaxPreloaded + MaxEvents) :
             Messages(chats[i].v)[j].id # PreviewId(ServerChatId(n))

\* C40: the step in which a turn writes its assistant or error message
\* leaves the session the turn was started on with the turn's array plus that
\* message, whatever session is active, and changes no other entry of the
\* store and not the active session
C40_TurnWritesOwnSession ==
  [][(last'.ev.kind = "turnEnd" /\ last'.ev.turn.pc \in {"ok", "failed"})
       => LET t == last'.ev.turn
              after == Messages(Get(chats', t.chatId))
          IN /\ InStore(chats', t.chatId)
             /\ Len(after) = Len(t.messagesWithUser) + 1
             /\ SubSeq(after, 1, Len(t.messagesWithUser)) = t.messagesWithUser
             /\ after[Len(after)].role = "assistant"
             /\ \A i \in 1..Len(chats) :
                  chats[i].k # t.chatId
                    => InStore(chats', chats[i].k) /\ Get(chats', chats[i].k) = chats[i].v
             /\ \A i \in 1..Len(chats') :
                  chats'[i].k # t.chatId => InStore(chats, chats'[i].k)
             /\ (activeChat # Null => activeChat' = activeChat)]_vars

\* C40 witness: a turn has ended with its assistant message on the session it
\* was started on while another stored session is the active one
C40_Witness ==
  /\ last.ev.kind = "turnEnd" /\ last.ev.turn.pc = "ok"
  /\ activeChat # last.ev.turn.chatId
  /\ InStore(chats, activeChat)
  /\ InStore(chats, last.ev.turn.chatId)
  /\ ~Falsy(IdField(Get(chats, last.ev.turn.chatId), "id"))
  /\ Messages(Get(chats, last.ev.turn.chatId))[Len(last.ev.turn.messagesWithUser) + 1].content
       = ServerText
  /\ ~InMessages(last.ev.turn.userMessage, Get(chats, activeChat))
====
